---- MODULE Spec2Model ----
(***************************************************************************)
(* The feature dependency forest of create-cinnamon-project                *)
(* (src/src/struct/generic/feature_tree.mts).                              *)
(*                                                                         *)
(* FeatureNode objects live in a heap, `nodes`, indexed by reference       *)
(* (1..n).  A node object holds its metadata, the array of references to   *)
(* its children and its enabled flag.  A FeatureForest holds the array of  *)
(* references to its roots in the private field _topology.                 *)
(*                                                                         *)
(* A FeatureNodeMetadata is modelled by its id: name and description are   *)
(* immutable strings no forest operation reads.  A feature argument        *)
(* (T | FeatureNodeMetadata<T>) is modelled by the identifier the          *)
(* `typeof feature === 'object'` prologue of each method reduces it to.    *)
(***************************************************************************)
EXTENDS Integers, Sequences, FiniteSets

\* Largest number of FeatureNode objects in a topology handed to forest().
MaxNodes == 4

\* Longest list handed to enableAll / disableAll.
MaxList == 2

VARIABLES
    nodes,      \* heap of FeatureNode objects: reference -> [metadata, _children, enabled]
    topology,   \* the constructor argument: array of references to the roots
    _topology,  \* the field FeatureForest._topology: << >> while unassigned, <<array>> once assigned
    state,      \* "new": forest() not yet called; "ready": the constructor returned; "failed": it threw
    threw,      \* whether the last call (the constructor or a method of the forest) threw
    prompt,     \* askUserForProjectFeatures: its `level`, the questions issued, the answers processed
    animator,   \* an Animator: _stopped, _renderNextFrameTimer, frame, and the interval timers of the event loop
    rewrite,    \* CinnamonProject.configure on one template file: the file, and what became of it
    run         \* main: where it is, what it has read from its environment, what it has done

vars == <<nodes, topology, _topology, state, threw, prompt, animator, rewrite, run>>

\* What the operations of the forest and of the prompt leave alone.
aside == <<animator, rewrite, run>>

----------------------------------------------------------------------------
\* Identifiers and inputs

\* Identifiers are opaque values compared for equality only.
Ids == 1..MaxNodes

\* Arguments of get/set/...: every identifier a topology may carry and one
\* that no topology carries.
Args == 1..(MaxNodes + 1)

\* The "much deeper level" of the test suite: getFeaturesForLevel(100).
FarLevel == 100

\* Levels asked of getFeaturesForLevel: every depth a node may have, the
\* two after the deepest, and the far level.
Levels == 0..(MaxNodes + 1) \cup {FarLevel}

Max(S) == CHOOSE x \in S : \A y \in S : y <= x
Min(S) == CHOOSE x \in S : \A y \in S : x <= y

\* Shapes of an ordered forest of n nodes, one per forest: the nodes are
\* numbered level by level, left to right (the parent of i is p[i], 0 for a
\* root), so the children of a node, and the roots, are in index order.
ParentSeqs(n) ==
    { p \in [1..n -> 0..n] :
        \A i \in 1..n : /\ p[i] < i
                        /\ (i > 1 => p[i-1] <= p[i]) }

\* Identifier assignments, one per renaming class: identifiers are numbered
\* in order of first occurrence (equal identifiers stay equal, distinct ones
\* stay distinct).
IdSeqs(n) ==
    { s \in [1..n -> Ids] :
        \A i \in 1..n : s[i] <= (IF i = 1 THEN 1
                                 ELSE Max({s[j] : j \in 1..(i-1)}) + 1) }

ChildrenOf(p, k) ==
    SelectSeq([i \in 1..Len(p) |-> i], LAMBDA i : p[i] = k)

\* node(metadata, children, options): enabled defaults to false.
node(id, children) ==
    [metadata |-> [id |-> id], _children |-> children, enabled |-> FALSE]

----------------------------------------------------------------------------
\* FeatureNode and FeatureForest (feature_tree.mts), over a heap h

\* FeatureNode.children
children(h, n) == h[n]._children

\* nodes.map(node => node.metadata.id)
idsOf(h, ns) == [i \in 1..Len(ns) |-> h[ns[i]].metadata.id]

\* nodes.map(node => node.metadata)
metadataOf(h, ns) == [i \in 1..Len(ns) |-> h[ns[i]].metadata]

\* (new Set(ids)).size !== ids.length
hasDuplicates(ids) == Cardinality({ids[i] : i \in 1..Len(ids)}) # Len(ids)

\* parentIds.includes(id)
includes(arr, x) == \E i \in 1..Len(arr) : arr[i] = x

\* nodes.flatMap(f), f given as the array of its results
RECURSIVE flatten(_)
flatten(arrs) ==
    IF Len(arrs) = 0 THEN << >> ELSE Head(arrs) \o flatten(Tail(arrs))

\* checkChildren that looks at its direct children only and does not
\* descend into them.
checkChildren_NoRecursion(h, n, parentIds) ==
    LET ids == idsOf(h, h[n]._children)
    IN  IF hasDuplicates(ids) THEN TRUE
        ELSE \E i \in 1..Len(ids) : includes(parentIds, ids[i])

\* FeatureNode.checkChildren(parentIds): TRUE when it throws.
RECURSIVE checkChildren(_, _, _)
checkChildren(h, n, parentIds) ==
    LET ids == idsOf(h, h[n]._children)
    IN  IF hasDuplicates(ids) THEN TRUE
        ELSE \E i \in 1..Len(ids) :
                \/ includes(parentIds, ids[i])
                \/ checkChildren(h, h[n]._children[i], Append(parentIds, ids[i]))

\* A constructor that validates the children but not the roots themselves.
FeatureForest_RootsUnchecked(h, topo) ==
    \E i \in 1..Len(topo) : checkChildren(h, topo[i], idsOf(h, topo))

\* The validation of the FeatureForest constructor: TRUE when it throws.
FeatureForest(h, topo) ==
    LET ids == idsOf(h, topo)
    IN  IF hasDuplicates(ids) THEN TRUE
        ELSE \E i \in 1..Len(topo) : checkChildren(h, topo[i], ids)

\* Results of findNodeInTopology: a node, undefined, or an exception thrown
\* by the constructor of a sub-forest.
Found(n)  == [tag |-> "node", ref |-> n]
Undefined == [tag |-> "undefined", ref |-> 0]
Thrown    == [tag |-> "throw", ref |-> 0]

RECURSIVE findNodeInTopology(_, _, _)
RECURSIVE findInChildren(_, _, _, _)
\* FeatureForest.findNodeInTopology(id) on the forest whose _topology is topo
findNodeInTopology(h, topo, id) ==
    LET hits == {i \in 1..Len(topo) : h[topo[i]].metadata.id = id}
    IN  IF hits # {} THEN Found(topo[Min(hits)])
        ELSE findInChildren(h, topo, id, 1)
\* its loop `for (const node of this._topology)`, from the i-th root on
findInChildren(h, topo, id, i) ==
    IF i > Len(topo) THEN Undefined
    ELSE LET sub == children(h, topo[i])
         IN  IF FeatureForest(h, sub) THEN Thrown
             ELSE LET result == findNodeInTopology(h, sub, id)
                  IN  IF result.tag # "undefined" THEN result
                      ELSE findInChildren(h, topo, id, i + 1)

\* _computeFeaturesForLevel that never filters on the enabled flag.
RECURSIVE _computeFeaturesForLevel_Unfiltered(_, _, _, _)
_computeFeaturesForLevel_Unfiltered(h, level, ns, currentLevel) ==
    IF currentLevel = level THEN metadataOf(h, ns)
    ELSE LET nextNodes == flatten([i \in 1..Len(ns) |-> children(h, ns[i])])
         IN  IF Len(nextNodes) = 0 THEN << >>
             ELSE _computeFeaturesForLevel_Unfiltered(h, level, nextNodes, currentLevel + 1)

\* _computeFeaturesForLevel that, past the deepest level it can reach,
\* answers with that deepest level.
RECURSIVE _computeFeaturesForLevel_Clamped(_, _, _, _)
_computeFeaturesForLevel_Clamped(h, level, ns, currentLevel) ==
    IF currentLevel = level THEN metadataOf(h, ns)
    ELSE LET on == SelectSeq(ns, LAMBDA n : h[n].enabled)
             nextNodes == flatten([i \in 1..Len(on) |-> children(h, on[i])])
         IN  IF Len(nextNodes) = 0 THEN metadataOf(h, ns)
             ELSE _computeFeaturesForLevel_Clamped(h, level, nextNodes, currentLevel + 1)

\* _computeFeaturesForLevel that filters the roots only: below the first
\* level every child is passed on.
RECURSIVE _computeFeaturesForLevel_RootsGateOnly(_, _, _, _)
_computeFeaturesForLevel_RootsGateOnly(h, level, ns, currentLevel) ==
    IF currentLevel = level THEN metadataOf(h, ns)
    ELSE LET on == IF currentLevel = 0 THEN SelectSeq(ns, LAMBDA n : h[n].enabled) ELSE ns
             nextNodes == flatten([i \in 1..Len(on) |-> children(h, on[i])])
         IN  IF Len(nextNodes) = 0 THEN << >>
             ELSE _computeFeaturesForLevel_RootsGateOnly(h, level, nextNodes, currentLevel + 1)

\* FeatureForest._computeFeaturesForLevel(level, nodes, currentLevel)
RECURSIVE _computeFeaturesForLevel(_, _, _, _)
_computeFeaturesForLevel(h, level, ns, currentLevel) ==
    IF currentLevel = level THEN metadataOf(h, ns)
    ELSE LET on == SelectSeq(ns, LAMBDA n : h[n].enabled)
             nextNodes == flatten([i \in 1..Len(on) |-> children(h, on[i])])
         IN  IF Len(nextNodes) = 0 THEN << >>
             ELSE _computeFeaturesForLevel(h, level, nextNodes, currentLevel + 1)

\* getFeaturesForLevel without the special case of level 0: the roots are
\* filtered like every other level.
getFeaturesForLevel_EnabledRoots(h, topo, level) ==
    IF level = 0 THEN metadataOf(h, SelectSeq(topo, LAMBDA n : h[n].enabled))
    ELSE _computeFeaturesForLevel(h, level, topo, 0)

\* FeatureForest.getFeaturesForLevel(level)
getFeaturesForLevel(h, topo, level) ==
    IF level = 0 THEN metadataOf(h, topo)
    ELSE _computeFeaturesForLevel(h, level, topo, 0)

\* The while loop of getAllEnabled.
RECURSIVE getAllEnabledLoop(_, _, _)
getAllEnabledLoop(h, search, enabled) ==
    IF Len(search) > 0
    THEN getAllEnabledLoop(
            h,
            flatten([i \in 1..Len(search) |->
                        SelectSeq(children(h, search[i]), LAMBDA n : h[n].enabled)]),
            enabled \o metadataOf(h, search))
    ELSE enabled

\* getAllEnabled that searches the children of every node, enabled or not.
RECURSIVE getAllEnabledLoop_Ungated(_, _, _)
getAllEnabledLoop_Ungated(h, search, enabled) ==
    IF Len(search) > 0
    THEN getAllEnabledLoop_Ungated(
            h,
            flatten([i \in 1..Len(search) |-> children(h, search[i])]),
            enabled \o metadataOf(h, SelectSeq(search, LAMBDA n : h[n].enabled)))
    ELSE enabled

getAllEnabled_Ungated(h, topo) == getAllEnabledLoop_Ungated(h, topo, << >>)

\* FeatureForest.getAllEnabled()
getAllEnabled(h, topo) ==
    getAllEnabledLoop(h, SelectSeq(topo, LAMBDA n : h[n].enabled), << >>)

\* set that, when it disables a node, clears the flags of the node's
\* children as well (cascading by mutation).
set_ClearingChildren(h, topo, feature, enabled) ==
    LET r == findNodeInTopology(h, topo, feature)
    IN  IF r.tag = "node"
        THEN [heap |-> [n \in DOMAIN h |->
                          IF n = r.ref \/ (~enabled /\ includes(children(h, r.ref), n))
                          THEN [h[n] EXCEPT !.enabled = enabled]
                          ELSE h[n]],
              threw |-> FALSE]
        ELSE [heap |-> h, threw |-> TRUE]

\* set that writes the flag of the root of the tree the node is found in.
set_OnTheRoot(h, topo, feature, enabled) ==
    LET r == findNodeInTopology(h, topo, feature)
        roots == {topo[i] : i \in 1..Len(topo)}
    IN  IF r.tag = "node"
        THEN LET RECURSIVE rootOf(_)
                 rootOf(n) == IF n \in roots THEN n
                              ELSE rootOf(CHOOSE m \in DOMAIN h : includes(children(h, m), n))
             IN  [heap |-> [h EXCEPT ![rootOf(r.ref)].enabled = enabled], threw |-> FALSE]
        ELSE [heap |-> h, threw |-> TRUE]

\* set that skips an identifier it does not find (`?.` instead of `!.`).
set_SkippingUnknown(h, topo, feature, enabled) ==
    LET r == findNodeInTopology(h, topo, feature)
    IN  IF r.tag = "node"
        THEN [heap |-> [h EXCEPT ![r.ref].enabled = enabled], threw |-> FALSE]
        ELSE [heap |-> h, threw |-> r.tag = "throw"]

\* FeatureForest.set(feature, enabled): the heap after the call and whether
\* the call threw (the lookup threw, or it returned undefined and the
\* assignment to `.enabled` of undefined threw a TypeError).
set(h, topo, feature, enabled) ==
    LET r == findNodeInTopology(h, topo, feature)
    IN  IF r.tag = "node"
        THEN [heap |-> [h EXCEPT ![r.ref].enabled = enabled], threw |-> FALSE]
        ELSE [heap |-> h, threw |-> TRUE]

\* FeatureForest.enable(feature) / disable(feature)
enable(h, topo, feature) == set(h, topo, feature, TRUE)
disable(h, topo, feature) == set(h, topo, feature, FALSE)

\* features.forEach(feature => this.enable(feature)), from the i-th element
\* on: an exception ends the loop and reaches the caller.
RECURSIVE enableAllFrom(_, _, _, _)
enableAllFrom(h, topo, features, i) ==
    IF i > Len(features) THEN [heap |-> h, threw |-> FALSE]
    ELSE LET r == enable(h, topo, features[i])
         IN  IF r.threw THEN r ELSE enableAllFrom(r.heap, topo, features, i + 1)

\* enableAll that enables nothing when one of its features is unknown.
enableAll_AllOrNothing(h, topo, features) ==
    LET r == enableAllFrom(h, topo, features, 1)
    IN  IF r.threw THEN [heap |-> h, threw |-> TRUE] ELSE r

\* FeatureForest.enableAll(features)
enableAll(h, topo, features) == enableAllFrom(h, topo, features, 1)

\* features.forEach(feature => this.disable(feature)), likewise
RECURSIVE disableAllFrom(_, _, _, _)
disableAllFrom(h, topo, features, i) ==
    IF i > Len(features) THEN [heap |-> h, threw |-> FALSE]
    ELSE LET r == disable(h, topo, features[i])
         IN  IF r.threw THEN r ELSE disableAllFrom(r.heap, topo, features, i + 1)

\* FeatureForest.disableAll(features)
disableAll(h, topo, features) == disableAllFrom(h, topo, features, 1)

\* get that answers whether the feature is offered as enabled: true only
\* for a node getAllEnabled would list.
get_OnlyIfListed(h, topo, feature) ==
    LET r == findNodeInTopology(h, topo, feature)
    IN  IF r.tag = "throw" THEN [value |-> FALSE, threw |-> TRUE]
        ELSE [value |-> r.tag = "node" /\ h[r.ref].enabled
                            /\ includes(getAllEnabled(h, topo), h[r.ref].metadata),
              threw |-> FALSE]

\* FeatureForest.get(feature): `findNodeInTopology(feature)?.enabled ?? false`,
\* or the exception of the lookup.
get(h, topo, feature) ==
    LET r == findNodeInTopology(h, topo, feature)
    IN  IF r.tag = "throw" THEN [value |-> FALSE, threw |-> TRUE]
        ELSE [value |-> IF r.tag = "node" THEN h[r.ref].enabled ELSE FALSE,
              threw |-> FALSE]

\* getEnabledFeaturesForLevel without its filter.
getEnabledFeaturesForLevel_Unfiltered(h, topo, level) ==
    [value |-> getFeaturesForLevel(h, topo, level), threw |-> FALSE]

\* FeatureForest.getEnabledFeaturesForLevel(level):
\* getFeaturesForLevel(level).filter(feature => this.get(feature)); the
\* first get that throws ends the call.
getEnabledFeaturesForLevel(h, topo, level) ==
    LET features == getFeaturesForLevel(h, topo, level)
    IN  IF \E i \in 1..Len(features) : get(h, topo, features[i].id).threw
        THEN [value |-> << >>, threw |-> TRUE]
        ELSE [value |-> SelectSeq(features, LAMBDA feature : get(h, topo, feature.id).value),
              threw |-> FALSE]

\* Outcomes of getParentOf: the metadata returned (in a one-element
\* sequence), undefined returned, or an exception.
Returned(metadata) == [tag |-> "returned", value |-> <<metadata>>]
ReturnedUndefined  == [tag |-> "undefined", value |-> << >>]
Raised             == [tag |-> "throw", value |-> << >>]

\* FeatureForest.getParentOf(feature): the parent is looked for among the
\* roots (this._topology.find(...)); `parent.metadata` of an undefined
\* parent throws a TypeError.
getParentOf(h, topo, feature) ==
    LET r == findNodeInTopology(h, topo, feature)
        hits == {i \in 1..Len(topo) :
                    r.tag = "node" /\ includes(children(h, topo[i]), r.ref)}
    IN  IF r.tag = "throw" THEN Raised
        ELSE IF hits = {} THEN Raised
        ELSE Returned(h[topo[Min(hits)]].metadata)

----------------------------------------------------------------------------
\* The feature catalog of a Cinnamon project

\* enum CinnamonProjectFeatureType (string-valued).
CinnamonProjectFeatureType ==
    { "VALIDATOR", "DATABASE", "AUTHENTICATION", "PUSH_TOKENS", "ASSET", "AVATAR",
      "ASL_PROTOCOL", "ASL_ERRORS", "WEBSERVER_SETTINGS_PLUGIN" }

\* The catalog with ASSET under AUTHENTICATION, as the expectations of
\* tests/index.test.ts have it.
CinnamonNodes_AsTested ==
    << node("VALIDATOR", << >>),
       node("DATABASE", <<6>>),
       node("ASL_PROTOCOL", << >>),
       node("ASL_ERRORS", << >>),
       node("WEBSERVER_SETTINGS_PLUGIN", << >>),
       node("AUTHENTICATION", <<8, 7>>),
       node("ASSET", <<9>>),
       node("PUSH_TOKENS", << >>),
       node("AVATAR", << >>) >>

\* The FeatureNode objects createCinnamonFeatureForest builds, numbered
\* level by level: DATABASE has AUTHENTICATION and ASSET, AUTHENTICATION has
\* PUSH_TOKENS, ASSET has AVATAR.
CinnamonNodes ==
    << node("VALIDATOR", << >>),
       node("DATABASE", <<6, 7>>),
       node("ASL_PROTOCOL", << >>),
       node("ASL_ERRORS", << >>),
       node("WEBSERVER_SETTINGS_PLUGIN", << >>),
       node("AUTHENTICATION", <<8>>),
       node("ASSET", <<9>>),
       node("PUSH_TOKENS", << >>),
       node("AVATAR", << >>) >>

\* The array handed to forest(): the five roots.
CinnamonTopology == <<1, 2, 3, 4, 5>>

\* An Animator as its constructor leaves it: _stopped = false, no timer
\* (0 stands for undefined), frame 0; no interval is scheduled.
AnimatorNew ==
    [_stopped |-> FALSE, silent |-> FALSE, _renderNextFrameTimer |-> 0, frame |-> 0,
     scheduled |-> {}, timers |-> 0]

\* configure has not been handed a file.
NoRewrite ==
    [phase |-> "none", guard |-> << >>, lines |-> << >>, contents |-> << >>,
     outcome |-> "", written |-> << >>]

\* main has not been called: nothing read, asked, reported or created.
NotRun ==
    [pc |-> "none", exitCode |-> << >>, errors |-> << >>, templates |-> << >>,
     checked |-> FALSE, reason |-> "", directoryExists |-> FALSE, confirmed |-> FALSE,
     asked |-> << >>, created |-> {}, installed |-> "no", migration |-> "no"]

\* askUserForProjectFeatures before it ran: let level = 0, nothing asked.
PromptIdle == [level |-> 0, asked |-> << >>, applied |-> << >>, completed |-> FALSE]

----------------------------------------------------------------------------
\* The state machine

Init ==
    \E n \in 0..MaxNodes :
      \E p \in ParentSeqs(n), s \in IdSeqs(n) :
        /\ nodes = [i \in 1..n |-> node(s[i], ChildrenOf(p, i))]
        /\ topology = ChildrenOf(p, 0)
        /\ _topology = << >>
        /\ state = "new"
        /\ threw = FALSE
        /\ prompt = PromptIdle
        /\ animator = AnimatorNew
        /\ rewrite = NoRewrite
        /\ run = NotRun

\* forest(topology): new FeatureForest(topology).  The field is assigned
\* first (line 51), then validated; when the validation throws, the caller
\* receives no object.
Construct ==
    /\ state = "new"
    /\ _topology' = <<topology>>
    /\ state' = IF FeatureForest(nodes, topology) THEN "failed" ELSE "ready"
    /\ threw' = FeatureForest(nodes, topology)
    /\ UNCHANGED <<nodes, topology, prompt>>
    /\ UNCHANGED aside

\* A mutating call on the constructed forest; r is the outcome of its body.
Mutate(r) ==
    /\ state = "ready"
    /\ nodes' = r.heap
    /\ threw' = r.threw
    /\ UNCHANGED <<topology, _topology, state, prompt>>
    /\ UNCHANGED aside

Set(feature, enabled) == Mutate(set(nodes, _topology[1], feature, enabled))

Enable(feature) == Mutate(enable(nodes, _topology[1], feature))

Disable(feature) == Mutate(disable(nodes, _topology[1], feature))

\* Lists handed to enableAll / disableAll: a selection, which names each
\* feature at most once (the unknown identifier may be among them).
FeatureLists ==
    UNION { { fs \in [1..k -> Args] : \A i, j \in 1..k : i # j => fs[i] # fs[j] }
            : k \in 0..MaxList }

EnableAll(features) == Mutate(enableAll(nodes, _topology[1], features))

DisableAll(features) == Mutate(disableAll(nodes, _topology[1], features))

Next ==
    \/ Construct
    \/ \E f \in Args, b \in BOOLEAN : Set(f, b)
    \/ \E f \in Args : Enable(f)
    \/ \E f \in Args : Disable(f)
    \/ \E fs \in FeatureLists : EnableAll(fs)
    \/ \E fs \in FeatureLists : DisableAll(fs)

Spec == Init /\ [][Next]_vars

\* The forest driven by single calls only.  enableAll and disableAll are
\* loops of enable and disable, so both specifications reach the same
\* states; the properties of one set/enable/disable step are checked on the
\* steps of this one.
NextSingle ==
    \/ Construct
    \/ \E f \in Args, b \in BOOLEAN : Set(f, b)
    \/ \E f \in Args : Enable(f)
    \/ \E f \in Args : Disable(f)

SpecSingle == Init /\ [][NextSingle]_vars

\* The catalog forest of a new CinnamonProject
\* (features = createCinnamonFeatureForest()), driven by enable and disable.
InitCatalog ==
    /\ nodes = CinnamonNodes
    /\ topology = CinnamonTopology
    /\ _topology = << >>
    /\ state = "new"
    /\ threw = FALSE
    /\ prompt = PromptIdle
    /\ animator = AnimatorNew
    /\ rewrite = NoRewrite
    /\ run = NotRun

NextCatalog ==
    \/ Construct
    \/ \E f \in CinnamonProjectFeatureType : Enable(f)
    \/ \E f \in CinnamonProjectFeatureType : Disable(f)

SpecCatalog == InitCatalog /\ [][NextCatalog]_vars

\* The elements of seq at the positions in S, in the order of seq.
RECURSIVE Pick(_, _)
Pick(seq, S) ==
    IF seq = << >> THEN << >>
    ELSE LET rest == Pick(SubSeq(seq, 1, Len(seq) - 1), S)
         IN  IF Len(seq) \in S THEN Append(rest, seq[Len(seq)]) ELSE rest

\* What a checkbox question can be answered with: the values of the ticked
\* choices, in the order of the choices.
Answers(choices) == { Pick(choices, S) : S \in SUBSET (1..Len(choices)) }

\* The choices of the question in front of the user; << >> when none is.
Pending ==
    IF ~prompt.completed /\ Len(prompt.asked) > Len(prompt.applied)
    THEN <<prompt.asked[Len(prompt.asked)].choices>>
    ELSE << >>

\* questionForFeatures(message, features), with the level it was built for.
questionForFeatures(level, features) ==
    [level |-> level, choices |-> [i \in 1..Len(features) |-> features[i].id]]

\* The initial question: getFeaturesForLevel(level) with level = 0, issued
\* without looking at its length.
AskInitial ==
    /\ state = "ready"
    /\ prompt = PromptIdle
    /\ prompt' = [prompt EXCEPT
                    !.asked = <<questionForFeatures(prompt.level,
                                   getFeaturesForLevel(nodes, _topology[1], prompt.level))>>]
    /\ UNCHANGED <<nodes, topology, _topology, state, threw>>
    /\ UNCHANGED aside

\* The subscriber with `level++` in place of `++level`.
Answer_PostIncrement(answer) ==
    /\ state = "ready"
    /\ Pending # << >>
    /\ answer \in Answers(Pending[1])
    /\ LET r == enableAll(nodes, _topology[1], answer)
           features == getFeaturesForLevel(r.heap, _topology[1], prompt.level)
       IN  /\ nodes' = r.heap
           /\ threw' = r.threw
           /\ prompt' =
                IF r.threw THEN [prompt EXCEPT !.applied = Append(@, answer)]
                ELSE IF Len(features) = 0
                THEN [prompt EXCEPT !.level = @ + 1, !.applied = Append(@, answer),
                                    !.completed = TRUE]
                ELSE [prompt EXCEPT !.level = @ + 1, !.applied = Append(@, answer),
                                    !.asked = Append(@, questionForFeatures(prompt.level, features))]
    /\ UNCHANGED <<topology, _topology, state>>
    /\ UNCHANGED aside

\* The subscriber of prompt.ui.process for one answer: enableAll(answer),
\* getFeaturesForLevel(++level), then complete() when that is empty or the
\* next question otherwise.  An exception of enableAll leaves the handler
\* before `level` is touched.
Answer(answer) ==
    /\ state = "ready"
    /\ Pending # << >>
    /\ answer \in Answers(Pending[1])
    /\ LET r == enableAll(nodes, _topology[1], answer)
           features == getFeaturesForLevel(r.heap, _topology[1], prompt.level + 1)
       IN  /\ nodes' = r.heap
           /\ threw' = r.threw
           /\ prompt' =
                IF r.threw THEN [prompt EXCEPT !.applied = Append(@, answer)]
                ELSE IF Len(features) = 0
                THEN [prompt EXCEPT !.level = @ + 1, !.applied = Append(@, answer),
                                    !.completed = TRUE]
                ELSE [prompt EXCEPT !.level = @ + 1, !.applied = Append(@, answer),
                                    !.asked = Append(@, questionForFeatures(prompt.level + 1, features))]
    /\ UNCHANGED <<topology, _topology, state>>
    /\ UNCHANGED aside

\* askUserForProjectFeatures(project) on a new CinnamonProject.  The initial
\* question is issued by straight-line code and the prompt is awaited until
\* the user has answered, so every enabled step is eventually taken.
NextPrompt ==
    \/ Construct
    \/ AskInitial
    \/ Pending # << >> /\ \E answer \in Answers(Pending[1]) : Answer(answer)

SpecPrompt == InitCatalog /\ [][NextPrompt]_vars /\ WF_vars(NextPrompt)

----------------------------------------------------------------------------
\* Vocabulary of the properties: the shape of the forest, read off the heap

Refs == DOMAIN nodes

IdOf(n) == nodes[n].metadata.id

\* The node whose child array holds n; 0 for a root.
ParentOf(n) ==
    LET ps == {m \in Refs : \E i \in 1..Len(nodes[m]._children) : nodes[m]._children[i] = n}
    IN  IF ps = {} THEN 0 ELSE CHOOSE m \in ps : TRUE

RECURSIVE AncestorsOf(_)
\* The strict ancestors of n.
AncestorsOf(n) ==
    IF ParentOf(n) = 0 THEN {} ELSE {ParentOf(n)} \cup AncestorsOf(ParentOf(n))

DepthOf(n) == Cardinality(AncestorsOf(n))

DescendantsOf(n) == {m \in Refs : n \in AncestorsOf(m)}

Roots == {n \in Refs : ParentOf(n) = 0}

\* The topology is valid: no two nodes anywhere carry the same identifier.
ValidTopology == \A m, n \in Refs : m # n => IdOf(m) # IdOf(n)

\* The four kinds of duplicate the tests and the documentation name.
RootsShareId == \E m, n \in Roots : m # n /\ IdOf(m) = IdOf(n)

SiblingsShareId ==
    \E m, n \in Refs : m # n /\ ParentOf(m) # 0 /\ ParentOf(m) = ParentOf(n) /\ IdOf(m) = IdOf(n)

SharesIdWithAncestor == \E n \in Refs : \E a \in AncestorsOf(n) : IdOf(a) = IdOf(n)

DescendantSharesIdWithRoot ==
    \E n \in Refs \ Roots : \E r \in Roots : IdOf(r) = IdOf(n)

\* Two nodes that are neither siblings nor ancestor and descendant, none of
\* them a root, carry the same identifier.
CousinsShareId ==
    \E m, n \in Refs \ Roots :
        /\ m # n /\ IdOf(m) = IdOf(n)
        /\ ParentOf(m) # ParentOf(n)
        /\ m \notin AncestorsOf(n) /\ n \notin AncestorsOf(m)

\* The nodes are numbered level by level, left to right: at one depth, the
\* order of the references is the forest order.
InForestOrder(S) ==
    LET RECURSIVE upTo(_)
        upTo(k) == IF k = 0 THEN << >>
                   ELSE IF k \in S THEN Append(upTo(k - 1), k) ELSE upTo(k - 1)
    IN  upTo(Len(nodes))

\* Every strict ancestor of n has its stored flag true.
Reachable(h, n) == \A a \in AncestorsOf(n) : h[a].enabled

----------------------------------------------------------------------------
\* C1: construction fails whenever two nodes anywhere in the topology carry
\* the same identifier, cousins included: a forest the constructor returned
\* has no identifier twice.
C1_GloballyUniqueOrFails ==
    state = "ready" => ValidTopology

\* C2: construction throws when two roots share an identifier, when two
\* children of one node do, when a node shares one with an ancestor, or when
\* a descendant at any depth shares one with a root; with all identifiers
\* distinct it succeeds.
C2_DuplicateKindsThrow ==
    state # "new" =>
        /\ (RootsShareId \/ SiblingsShareId \/ SharesIdWithAncestor
                \/ DescendantSharesIdWithRoot) => state = "failed"
        /\ ValidTopology => state = "ready"

\* Construction failed on a node two levels or more below the roots that
\* carries the identifier of a root which is not its ancestor, the only
\* duplicate of the topology.
C2_Witness ==
    /\ state = "failed"
    /\ ~RootsShareId /\ ~SiblingsShareId /\ ~SharesIdWithAncestor
    /\ \E n \in Refs : \E r \in Roots :
          DepthOf(n) >= 2 /\ IdOf(r) = IdOf(n) /\ r \notin AncestorsOf(n)

\* C3 as stated: when validation fails the constructor throws before the
\* topology field is assigned.
C3_ThrowsBeforeAssigning ==
    state = "failed" => _topology = << >>

\* C3, amended: the constructor assigns the topology field first and
\* validates afterwards; when validation fails it throws, so the caller
\* receives no forest, and a forest the caller holds has its field set to a
\* topology with none of the duplicates validation looks for.
C3_NoForestFromFailedValidation ==
    LET rejected == RootsShareId \/ SiblingsShareId \/ SharesIdWithAncestor
                        \/ DescendantSharesIdWithRoot
    IN  /\ state = "new" => _topology = << >>
        /\ state = "failed" => rejected /\ threw /\ _topology = <<topology>>
        /\ state = "ready" => ~rejected /\ _topology = <<topology>>

\* The constructor threw on two roots of the same identifier, after it had
\* assigned the field.
C3_Witness ==
    state = "failed" /\ threw /\ RootsShareId /\ _topology = <<topology>>

\* C4: whatever calls were made and whatever the stored flags are,
\* getFeaturesForLevel(0) is the metadata of every root, in forest order.
C4_LevelZeroIsTheRoots ==
    state = "ready" =>
        getFeaturesForLevel(nodes, _topology[1], 0)
            = [i \in 1..Len(topology) |-> [id |-> IdOf(topology[i])]]

\* A forest of several roots, one enabled and one disabled, with an enabled
\* node below the roots.
C4_Witness ==
    /\ state = "ready"
    /\ \E r1, r2 \in Roots : nodes[r1].enabled /\ ~nodes[r2].enabled
    /\ \E n \in Refs \ Roots : nodes[n].enabled

DeepestLevel == IF Refs = {} THEN -1 ELSE Max({DepthOf(n) : n \in Refs})

\* C9: getFeaturesForLevel of a level greater than the depth of the deepest
\* node is the empty sequence (the call has no failing path).
C9_PastTheDeepestLevelIsEmpty ==
    state = "ready" =>
        \A level \in Levels :
            level > DeepestLevel => getFeaturesForLevel(nodes, _topology[1], level) = << >>

\* Every node of a forest three levels deep is enabled, so that the deepest
\* level is offered and the next one is the first past the end.
C9_Witness ==
    /\ state = "ready" /\ ValidTopology
    /\ DeepestLevel >= 2
    /\ \A n \in Refs : nodes[n].enabled

\* C10: getAllEnabled() returns, each once, the metadata of the nodes whose
\* own flag and whose every ancestor's flag are true, and of no other node.
C10_AllEnabledIsTheEnabledChains ==
    state = "ready" /\ ValidTopology =>
        LET result == getAllEnabled(nodes, _topology[1])
            chain == {n \in Refs : nodes[n].enabled /\ Reachable(nodes, n)}
        IN  /\ {result[i] : i \in 1..Len(result)} = {[id |-> IdOf(n)] : n \in chain}
            /\ Len(result) = Cardinality(chain)

\* An enabled node under a disabled ancestor, next to an enabled node below
\* the roots whose ancestors are all enabled.
C10_Witness ==
    /\ state = "ready" /\ ValidTopology
    /\ \E n \in Refs : nodes[n].enabled /\ ~Reachable(nodes, n)
    /\ \E m \in Refs \ Roots : nodes[m].enabled /\ Reachable(nodes, m)

\* The node that carries identifier f (one node, in a valid topology).
NodeOf(f) == CHOOSE n \in Refs : IdOf(n) = f

\* C6: after disable(n), no descendant of n is in getFeaturesForLevel(j) for
\* any level j below n, while at every level the entries that are not
\* descendants of n, and the whole of level 0, are what they were before.
C6_DisableHidesItsSubtreeOnly ==
    [][ state = "ready" /\ ValidTopology =>
          \A n \in Refs :
            Disable(IdOf(n)) =>
              LET topo == _topology[1]
                  below == {[id |-> IdOf(d)] : d \in DescendantsOf(n)}
                  others(seq) == SelectSeq(seq, LAMBDA md : md \notin below)
              IN  /\ \A j \in Levels :
                        j > DepthOf(n) =>
                          \A i \in 1..Len(getFeaturesForLevel(nodes', topo, j)) :
                              getFeaturesForLevel(nodes', topo, j)[i] \notin below
                  /\ \A j \in Levels :
                        others(getFeaturesForLevel(nodes', topo, j))
                            = others(getFeaturesForLevel(nodes, topo, j))
                  /\ getFeaturesForLevel(nodes', topo, 0) = getFeaturesForLevel(nodes, topo, 0)
      ]_vars

\* A disabled node under enabled ancestors keeps an enabled child, and
\* another node of its depth still offers its own child.
C6_Witness ==
    /\ state = "ready" /\ ValidTopology /\ ~threw
    /\ \E n, m \in Refs :
          /\ n # m /\ DepthOf(n) = DepthOf(m)
          /\ ~nodes[n].enabled /\ Reachable(nodes, n)
          /\ \E c \in Refs : ParentOf(c) = n /\ nodes[c].enabled
          /\ nodes[m].enabled /\ Reachable(nodes, m)
          /\ \E c \in Refs : ParentOf(c) = m

\* C7: for an enabled node n, disable(n) followed by enable(n) gives back,
\* for every level, the getFeaturesForLevel result and the getAllEnabled
\* result of before the disable: the flags of the descendants are kept.
C7_ReenablingRestores ==
    [][ state = "ready" /\ ValidTopology =>
          \A n \in Refs :
            nodes[n].enabled /\ Disable(IdOf(n)) =>
              LET topo == _topology[1]
                  again == enable(nodes', topo, IdOf(n))
              IN  /\ ~again.threw
                  /\ \A k \in Levels :
                        getFeaturesForLevel(again.heap, topo, k)
                            = getFeaturesForLevel(nodes, topo, k)
                  /\ getAllEnabled(again.heap, topo) = getAllEnabled(nodes, topo)
      ]_vars

\* A chain of three enabled nodes: disabling the first hides the other two,
\* whose flags stay true.
C7_Witness ==
    /\ state = "ready" /\ ValidTopology /\ ~threw
    /\ \E n, c, g \in Refs :
          /\ ParentOf(c) = n /\ ParentOf(g) = c
          /\ nodes[n].enabled /\ nodes[c].enabled /\ nodes[g].enabled
          /\ Reachable(nodes, n)

\* C8: set(f, b), enable(f) and disable(f) on an identifier of the forest
\* change the stored flag of the node named f and nothing else: no other
\* flag, no child array, no metadata, not the forest's root array.
C8_SetWritesOneFlag ==
    [][ state = "ready" /\ ValidTopology =>
          \A n \in Refs : \A b \in BOOLEAN :
            (Set(IdOf(n), b) \/ (b /\ Enable(IdOf(n))) \/ (~b /\ Disable(IdOf(n)))) =>
              /\ nodes' = [nodes EXCEPT ![n].enabled = b]
              /\ ~threw'
              /\ UNCHANGED <<topology, _topology, prompt>>
      ]_vars

\* The only flag set in a chain of three nodes is that of the middle one.
C8_Witness ==
    /\ state = "ready" /\ ValidTopology /\ ~threw
    /\ \E p, n, c \in Refs :
          /\ ParentOf(n) = p /\ ParentOf(c) = n
          /\ nodes[n].enabled
          /\ \A m \in Refs \ {n} : ~nodes[m].enabled

\* The identifiers the nodes of the forest carry.
Carried == {IdOf(n) : n \in Refs}

\* C11: for a node at any depth of a valid forest, get returns the node's
\* own stored flag, whatever the flags of its ancestors.
C11_GetIsTheStoredFlag ==
    state = "ready" /\ ValidTopology =>
        \A n \in Refs :
            get(nodes, _topology[1], IdOf(n)) = [value |-> nodes[n].enabled, threw |-> FALSE]

\* Two levels or more below the roots, an enabled node under a disabled
\* ancestor; and a disabled node whose ancestors are all enabled.
C11_Witness ==
    /\ state = "ready" /\ ValidTopology
    /\ \E n \in Refs : DepthOf(n) >= 2 /\ nodes[n].enabled /\ ~Reachable(nodes, n)
    /\ \E m \in Refs \ Roots : ~nodes[m].enabled /\ Reachable(nodes, m)

\* C12: on any forest construction accepted, get of an identifier that no
\* node carries returns false and does not fail.
C12_GetOfUnknownIsFalse ==
    state = "ready" =>
        \A f \in Args \ Carried :
            get(nodes, _topology[1], f) = [value |-> FALSE, threw |-> FALSE]

\* C13: set, enable and disable with an identifier that no node carries
\* throw to the caller and leave every stored flag as it was.
C13_SetOfUnknownThrows ==
    state = "ready" =>
        \A f \in Args \ Carried :
            /\ \A b \in BOOLEAN :
                  set(nodes, _topology[1], f, b) = [heap |-> nodes, threw |-> TRUE]
            /\ enable(nodes, _topology[1], f) = [heap |-> nodes, threw |-> TRUE]
            /\ disable(nodes, _topology[1], f) = [heap |-> nodes, threw |-> TRUE]

\* A call on a valid forest threw while a flag set by an earlier call is
\* still in place.
C13_Witness ==
    /\ state = "ready" /\ ValidTopology /\ threw
    /\ \E n \in Refs : nodes[n].enabled

\* C14: getParentOf of a root returns undefined and does not throw.
C14_ParentOfRootIsUndefined ==
    state = "ready" /\ ValidTopology =>
        \A r \in Roots : getParentOf(nodes, _topology[1], IdOf(r)) = ReturnedUndefined

\* C15: for every node below the roots of a valid forest, at any depth,
\* getParentOf returns the metadata of the node whose children include it.
C15_ParentOfAnyNode ==
    state = "ready" /\ ValidTopology =>
        \A n \in Refs \ Roots :
            getParentOf(nodes, _topology[1], IdOf(n)) = Returned([id |-> IdOf(ParentOf(n))])

\* The nodes getFeaturesForLevel(level) lists, in its order (C4, C5).
OfferedAt(level) ==
    IF level = 0 THEN topology
    ELSE InForestOrder({n \in Refs : DepthOf(n) = level /\ Reachable(nodes, n)})

\* C16: on every forest construction accepts, getEnabledFeaturesForLevel(level)
\* is the subsequence of getFeaturesForLevel(level) of the nodes whose own
\* stored flag is true.
C16_EnabledAtLevelIsTheOwnFlags ==
    state = "ready" =>
        \A level \in Levels :
            getEnabledFeaturesForLevel(nodes, _topology[1], level)
                = [value |-> metadataOf(nodes, SelectSeq(OfferedAt(level),
                                                         LAMBDA n : nodes[n].enabled)),
                   threw |-> FALSE]

\* C17: on every forest construction accepts, no lookup fails with a
\* duplicate-identifier error: the child array of every node, re-wrapped as
\* a sub-forest, passes the constructor's validation.
C17_SubForestsAreAccepted ==
    state = "ready" =>
        /\ \A n \in Refs : ~FeatureForest(nodes, children(nodes, n))
        /\ \A f \in Args : findNodeInTopology(nodes, _topology[1], f).tag # "throw"

----------------------------------------------------------------------------
\* The catalog scenario

\* The identifiers whose own flag is true.
EnabledIds == {IdOf(n) : n \in {m \in Refs : nodes[m].enabled}}

\* getFeaturesForLevel(level) of the forest, as the identifiers in order.
LevelIds(level) ==
    LET features == getFeaturesForLevel(nodes, _topology[1], level)
    IN  [i \in 1..Len(features) |-> features[i].id]

C19_CatalogAsTested ==
    state = "ready" =>
        /\ EnabledIds = {"DATABASE"} => LevelIds(1) = << "AUTHENTICATION" >>
        /\ EnabledIds = {"DATABASE", "AUTHENTICATION"} =>
             /\ Len(LevelIds(1)) = 1
             /\ Len(LevelIds(2)) = 2
             /\ {LevelIds(2)[i] : i \in 1..2} = {"PUSH_TOKENS", "ASSET"}

----------------------------------------------------------------------------
\* The prompt driver

\* What holds of the questions issued so far.
PromptInOrder ==
    /\ \A i \in 1..Len(prompt.asked) :
          /\ prompt.asked[i].level = i - 1
          /\ prompt.asked[i].choices # << >>
    /\ Len(prompt.asked) <= Len(prompt.applied) + 1
    /\ \A i \in 1..Len(prompt.applied) :
          \A j \in 1..Len(prompt.applied[i]) :
              /\ prompt.applied[i][j] \in EnabledIds
              /\ \E c \in 1..Len(prompt.asked[i].choices) :
                    prompt.asked[i].choices[c] = prompt.applied[i][j]
    /\ prompt.completed =>
          /\ prompt.level = Len(prompt.asked)
          /\ Len(prompt.applied) = Len(prompt.asked)
          /\ LevelIds(prompt.level) = << >>
    /\ Len(prompt.asked) <= DeepestLevel + 1

\* C20: the prompt driver asks one question per level, in increasing order
\* from level 0; the question of level k+1 is issued only once the answer to
\* level k has been applied with enableAll; it completes at the first level
\* whose getFeaturesForLevel is empty, so whatever the user selects it
\* completes, after at most (depth of the forest + 1) questions.
C20_PromptCompletes == []PromptInOrder /\ <>prompt.completed

\* The driver completed after a question for each of the three levels of
\* the catalog.
C20_Witness ==
    /\ prompt.completed
    /\ Len(prompt.asked) = DeepestLevel + 1
    /\ Len(prompt.applied[2]) > 0

----------------------------------------------------------------------------
\* The queries against each other, and the bulk mutations

\* getEnabledFeaturesForLevel(k) for k = level, level + 1, ..., last, one
\* after the other.
RECURSIVE EnabledFromLevel(_, _)
EnabledFromLevel(level, last) ==
    IF level > last THEN << >>
    ELSE getEnabledFeaturesForLevel(nodes, _topology[1], level).value
            \o EnabledFromLevel(level + 1, last)

\* C28: on a valid forest, whatever the flags, getAllEnabled() is the
\* sequence getEnabledFeaturesForLevel(0), getEnabledFeaturesForLevel(1),
\* ... up to the depth of the forest, concatenated; none of these calls
\* throws.
C28_AllEnabledIsTheLevelsConcatenated ==
    state = "ready" /\ ValidTopology =>
        /\ getAllEnabled(nodes, _topology[1]) = EnabledFromLevel(0, DeepestLevel)
        /\ \A level \in 0..DeepestLevel :
              ~getEnabledFeaturesForLevel(nodes, _topology[1], level).threw

\* Enabled nodes on three levels, beside a disabled node and a node hidden
\* by a disabled parent.
C28_Witness ==
    /\ state = "ready" /\ ValidTopology
    /\ \E n \in Refs : DepthOf(n) = 2 /\ nodes[n].enabled /\ Reachable(nodes, n)
    /\ \E m \in Refs : ~nodes[m].enabled /\ Reachable(nodes, m)

\* The heap after the flags of the nodes named by the first k elements of
\* features have been set to b, in order.
RECURSIVE AfterSetting(_, _, _)
AfterSetting(features, k, b) ==
    IF k = 0 THEN nodes
    ELSE [AfterSetting(features, k - 1, b) EXCEPT ![NodeOf(features[k])].enabled = b]

\* The position of the first element of features that no node carries.
FirstUnknown(features) == Min({i \in 1..Len(features) : features[i] \notin Carried})

\* C29: enableAll and disableAll go through their list in order and are not
\* atomic: with the first unknown identifier at position k the call throws,
\* the flags of the k-1 features before it have been set, and no other flag
\* (those of the features after position k included) has changed.
C29_BulkStopsAtTheFirstUnknown ==
    state = "ready" /\ ValidTopology =>
        \A fs \in FeatureLists :
            (\E i \in 1..Len(fs) : fs[i] \notin Carried) =>
                LET k == FirstUnknown(fs)
                IN  /\ enableAll(nodes, _topology[1], fs)
                         = [heap |-> AfterSetting(fs, k - 1, TRUE), threw |-> TRUE]
                    /\ disableAll(nodes, _topology[1], fs)
                         = [heap |-> AfterSetting(fs, k - 1, FALSE), threw |-> TRUE]

\* A bulk call threw on a valid forest and left a flag set, and a list with
\* a known feature before an unknown one would change the heap again.
C29_Witness ==
    /\ state = "ready" /\ ValidTopology /\ threw
    /\ \E n \in Refs : nodes[n].enabled
    /\ \E fs \in FeatureLists :
          /\ Len(fs) = 2 /\ fs[1] \in Carried /\ fs[2] \notin Carried
          /\ enableAll(nodes, _topology[1], fs).heap # nodes

\* C27: in the prompt flow on the catalog forest, where each answer is
\* among the choices offered for its level, every node whose flag is true
\* has the flags of all its ancestors true; so once the flow has completed,
\* get(f) is true for exactly the features getAllEnabled() returns.
C27_PromptEnablesWholeChains ==
    state = "ready" =>
        /\ \A n \in Refs : nodes[n].enabled => Reachable(nodes, n)
        /\ prompt.completed =>
              LET listed == getAllEnabled(nodes, _topology[1])
              IN  {f \in CinnamonProjectFeatureType : get(nodes, _topology[1], f).value}
                      = {listed[i].id : i \in 1..Len(listed)}

\* The flow completed with a feature of the deepest level selected.
C27_Witness ==
    /\ prompt.completed
    /\ \E n \in Refs : DepthOf(n) = DeepestLevel /\ nodes[n].enabled
    /\ \E m \in Roots : ~nodes[m].enabled

----------------------------------------------------------------------------
\* The Animator

\* Most calls of setInterval in a behaviour.
MaxTimers == 3

\* Most frames rendered in a behaviour.
MaxFrame == 3

\* What an Animator step leaves alone.
notAnimator == <<nodes, topology, _topology, state, threw, prompt, rewrite, run>>

\* Animator.stop(): clears the interval `_renderNextFrameTimer` holds, if it
\* holds one, and sets _stopped.
stop(a) ==
    [a EXCEPT !.scheduled = IF a._renderNextFrameTimer # 0
                            THEN @ \ {a._renderNextFrameTimer} ELSE @,
              !._renderNextFrameTimer = 0,
              !._stopped = TRUE]

\* Animator.render(): the frame is shown and the counter incremented.
render(a) == [a EXCEPT !.frame = @ + 1]

\* Animator.start(options): silent and _stopped are assigned and a new
\* interval is scheduled, its handle stored over the previous one.
Start(silent) ==
    /\ animator.timers < MaxTimers
    /\ LET timer == animator.timers + 1
       IN  animator' = [_stopped |-> FALSE,
                        silent |-> silent,
                        _renderNextFrameTimer |-> timer,
                        frame |-> animator.frame,
                        scheduled |-> animator.scheduled \cup {timer},
                        timers |-> timer]
    /\ UNCHANGED notAnimator

Stop ==
    /\ animator' = stop(animator)
    /\ UNCHANGED notAnimator

\* The callback of a scheduled interval fires:
\* if (!this._stopped) this.render(); else this.stop();
Tick(timer) ==
    /\ timer \in animator.scheduled
    /\ animator._stopped \/ animator.frame < MaxFrame
    /\ animator' = IF ~animator._stopped THEN render(animator) ELSE stop(animator)
    /\ UNCHANGED notAnimator

NextAnimator ==
    \/ \E silent \in BOOLEAN : Start(silent)
    \/ Stop
    \/ \E timer \in 1..MaxTimers : Tick(timer)

SpecAnimator == InitCatalog /\ [][NextAnimator]_vars

\* C26: in every state start() and stop() calls reach from construction,
\* the `stopped` getter is true exactly when no render interval is
\* scheduled.
C26_StoppedIffNoTimer ==
    animator._stopped <=> animator.scheduled = {}

----------------------------------------------------------------------------
\* main

\* `folders.length > 3 || files.length > 5`
FolderLimit == 3
FileLimit == 5

\* The files and folders whose presence makes a directory undesirable.
ProjectFiles == {"package.json", "cinnamon.toml", "node_modules", "yarn.lock", "package-lock.json"}

\* What isProbablyUndesirableDirectory reads of the directory at a path.
Directories ==
    [exists : BOOLEAN, at : {"home", "root", "elsewhere"}, writable : BOOLEAN,
     entries : SUBSET ProjectFiles,
     folders : {FolderLimit, FolderLimit + 1}, files : {FileLimit, FileLimit + 1}]

\* isProbablyUndesirableDirectory(path): the reason, "" for undefined.
isProbablyUndesirableDirectory(dir) ==
    IF ~dir.exists THEN ""
    ELSE IF dir.at = "home" THEN "you are in your home directory."
    ELSE IF dir.at = "root" THEN "you are in your system root directory."
    ELSE IF ~dir.writable THEN "you do not have permission to write to the directory."
    ELSE IF "package.json" \in dir.entries THEN "the directory already has a package.json file."
    ELSE IF "cinnamon.toml" \in dir.entries THEN "the directory already has a cinnamon.toml file."
    ELSE IF "node_modules" \in dir.entries THEN "the directory already has a node_modules directory."
    ELSE IF "yarn.lock" \in dir.entries THEN "the directory already has a yarn.lock file."
    ELSE IF "package-lock.json" \in dir.entries THEN "the directory already has a package-lock.json file."
    ELSE IF dir.folders > FolderLimit \/ dir.files > FileLimit
         THEN "the directory seems to be used for something else."
    ELSE ""

\* What a step of main leaves alone when it does not touch the forest.
notRun == <<nodes, topology, _topology, state, threw, prompt, animator, rewrite>>

\* error([...]); return process.exit(1)
exit(r, message) ==
    [r EXCEPT !.pc = "exited", !.exitCode = <<1>>, !.errors = Append(@, message)]

\* A step of main whose await rejects: main's promise rejects.
rejected(r) == [r EXCEPT !.pc = "rejected"]

\* main(rawArgs) is called.
Main ==
    /\ run.pc = "none"
    /\ run' = [run EXCEPT !.pc = "hasYarn"]
    /\ UNCHANGED notRun

\* if (!await hasYarn()) { error(...); return process.exit(1); }
CheckYarn(hasYarn) ==
    /\ run.pc = "hasYarn"
    /\ run' = IF ~hasYarn THEN exit(run, "yarn") ELSE [run EXCEPT !.pc = "templates"]
    /\ UNCHANGED notRun

\* if (!exists(TEMPLATES_DIRECTORY) && !exists(TEMPLATES_DIRECTORY/default.tar.gz))
\* { error(...); return process.exit(1); }.  The archive lies in the
\* directory, so it cannot exist without it.
CheckTemplates(directory, archive) ==
    /\ run.pc = "templates"
    /\ archive => directory
    /\ LET r == [run EXCEPT !.templates = <<[directory |-> directory, archive |-> archive]>>]
       IN  run' = IF ~directory /\ ~archive THEN exit(r, "templates")
                  ELSE [r EXCEPT !.pc = "directory"]
    /\ UNCHANGED notRun

\* CheckDirectory that continues whatever the reason.
CheckDirectory_Unheeded(dir) ==
    /\ run.pc = "directory"
    /\ run' = [run EXCEPT !.checked = TRUE, !.reason = isProbablyUndesirableDirectory(dir),
                          !.directoryExists = dir.exists, !.pc = "confirm"]
    /\ UNCHANGED notRun

\* resolveIntendedDirectory(args), then isProbablyUndesirableDirectory of
\* its path: `return skip(...)` when there is a reason.
CheckDirectory(dir) ==
    /\ run.pc = "directory"
    /\ LET reason == isProbablyUndesirableDirectory(dir)
       IN  run' = [run EXCEPT !.checked = TRUE, !.reason = reason,
                              !.directoryExists = dir.exists,
                              !.pc = IF reason # "" THEN "skipped" ELSE "confirm"]
    /\ UNCHANGED notRun

\* if (!await confirm(...)) return skip('Project creation was cancelled.')
Confirm(answer) ==
    /\ run.pc = "confirm"
    /\ run' = [run EXCEPT !.asked = Append(@, "confirm"), !.confirmed = answer,
                          !.pc = IF answer THEN "ensureDirectory" ELSE "skipped"]
    /\ UNCHANGED notRun

\* await targetDirectory.ensureDirectoryExists(): mkdir when it does not exist.
EnsureDirectoryExists(ok) ==
    /\ run.pc = "ensureDirectory"
    /\ run' = IF run.directoryExists THEN [run EXCEPT !.pc = "ensureTemporary"]
              ELSE IF ok THEN [run EXCEPT !.pc = "ensureTemporary", !.directoryExists = TRUE,
                                          !.created = @ \cup {"directory"}]
              ELSE rejected(run)
    /\ UNCHANGED notRun

\* await targetDirectory.ensureTemporaryDirectoryExists(): mkdtemp.
EnsureTemporaryDirectoryExists(ok) ==
    /\ run.pc = "ensureTemporary"
    /\ run' = IF ok THEN [run EXCEPT !.pc = "basics", !.created = @ \cup {"temporary"}]
              ELSE rejected(run)
    /\ UNCHANGED notRun

\* inquirer.prompt([name, author, port]); the project is constructed with
\* the answers.
AskBasics ==
    /\ run.pc = "basics"
    /\ run' = [run EXCEPT !.asked = Append(@, "basics"), !.pc = "features"]
    /\ UNCHANGED notRun

\* new CinnamonProject(...): features = createCinnamonFeatureForest().
NewProject == run.pc = "features" /\ Construct

\* await askUserForProjectFeatures(project)
AskFeatures ==
    /\ run.pc = "features"
    /\ \/ AskInitial
       \/ Pending # << >> /\ \E answer \in Answers(Pending[1]) : Answer(answer)

\* A step between the prompt and the install (extract once the prompt has
\* completed, configure, commit, removeTemporaryDirectory): it does its
\* work, or its await rejects.
Prepare(pc, next, done, ok) ==
    /\ run.pc = pc
    /\ pc = "features" => prompt.completed
    /\ run' = IF ok THEN [run EXCEPT !.pc = next, !.created = @ \cup done]
              ELSE rejected(run)
    /\ UNCHANGED notRun

\* Install that goes on to the migration when yarn failed.
Install_Regardless(ok) ==
    /\ run.pc = "install"
    /\ run' = [run EXCEPT !.installed = IF ok THEN "ok" ELSE "failed", !.pc = "migrate"]
    /\ UNCHANGED notRun

\* try { await project.install(...) } catch { error(...); return process.exit(1); }
Install(ok) ==
    /\ run.pc = "install"
    /\ run' = IF ok THEN [run EXCEPT !.installed = "ok", !.pc = "migrate"]
              ELSE exit([run EXCEPT !.installed = "failed"], "install")
    /\ UNCHANGED notRun

\* if (project.features.get(DATABASE)) { ... project.migrateDatabase() ... };
\* a failing migration is skipped with a message.
Migrate(outcome) ==
    /\ run.pc = "migrate"
    /\ run' = [run EXCEPT !.pc = "success",
                          !.migration = IF get(nodes, _topology[1], "DATABASE").value
                                        THEN outcome ELSE @]
    /\ UNCHANGED notRun

NextMain ==
    \/ Main
    \/ \E hasYarn \in BOOLEAN : CheckYarn(hasYarn)
    \/ \E directory, archive \in BOOLEAN : CheckTemplates(directory, archive)
    \/ \E dir \in Directories : CheckDirectory(dir)
    \/ \E answer \in BOOLEAN : Confirm(answer)
    \/ \E ok \in BOOLEAN : EnsureDirectoryExists(ok)
    \/ \E ok \in BOOLEAN : EnsureTemporaryDirectoryExists(ok)
    \/ AskBasics
    \/ NewProject
    \/ AskFeatures
    \/ \E ok \in BOOLEAN : Prepare("features", "configure", {"extracted"}, ok)
    \/ \E ok \in BOOLEAN : Prepare("configure", "commit", {"configured"}, ok)
    \/ \E ok \in BOOLEAN : Prepare("commit", "cleanup", {"copied"}, ok)
    \/ \E ok \in BOOLEAN : Prepare("cleanup", "install", {"cleaned"}, ok)
    \/ \E ok \in BOOLEAN : Install(ok)
    \/ \E outcome \in {"migrated", "skipped"} : Migrate(outcome)

SpecMain == InitCatalog /\ [][NextMain]_vars

\* C23: main attempts the database migration exactly when the dependency
\* install has completed successfully and get(DATABASE) is true; it is
\* never attempted with DATABASE disabled or after a failed install.
C23_MigrationAfterInstall ==
    /\ run.migration # "no" =>
          run.installed = "ok" /\ get(nodes, _topology[1], "DATABASE").value
    /\ run.installed = "failed" => run.pc = "exited" /\ run.migration = "no"
    /\ run.pc = "success" =>
          /\ run.installed = "ok"
          /\ run.migration # "no" <=> get(nodes, _topology[1], "DATABASE").value

\* main ended with the database migrated, a sub-feature of DATABASE chosen.
C23_Witness ==
    /\ run.pc = "success" /\ run.migration = "migrated" /\ run.installed = "ok"
    /\ get(nodes, _topology[1], "AUTHENTICATION").value

\* C24: whenever the templates directory does not exist or default.tar.gz
\* is not in it, main reports the missing-templates error and exits with
\* code 1, before any prompt is shown.
C24_MissingTemplatesExit ==
    \A t \in {run.templates[i] : i \in 1..Len(run.templates)} :
        ~t.directory \/ ~t.archive =>
            /\ run.pc = "exited" /\ run.exitCode = <<1>> /\ run.errors = <<"templates">>
            /\ run.asked = << >> /\ prompt = PromptIdle

\* C30: main creates nothing (target directory, temporary directory,
\* extracted, configured or copied files) before the undesirable-directory
\* check has passed and the user has confirmed; when the check gives a reason
\* or the user declines, main returns with nothing created.
C30_NothingCreatedBeforeConfirmation ==
    /\ run.created # {} => run.checked /\ run.reason = "" /\ run.confirmed
    /\ (run.checked /\ run.reason # "") \/ (run.asked # << >> /\ ~run.confirmed) =>
          run.pc = "skipped" /\ run.created = {}
    /\ run.pc = "skipped" => run.created = {}

\* The target directory did not exist, passed the check, was confirmed and
\* has been created together with the temporary directory.
C30_Witness ==
    /\ run.checked /\ run.reason = "" /\ run.confirmed
    /\ {"directory", "temporary"} \subseteq run.created

----------------------------------------------------------------------------
\* CinnamonProject.configure

\* The text of a template file is a sequence of units: an end of line, a
\* character of ordinary text, or the whole of a marker //[BEGIN:F],
\* //[END:F], //[BEGIN:!F] or //[END:!F].  Positions count units from 0, as
\* string indexes do; every position the code computes is that of a marker
\* or of an end of line, so taking a marker as one unit changes no
\* comparison between positions.
EOL == [type |-> "EOL", negated |-> FALSE, name |-> ""]
Char == [type |-> "text", negated |-> FALSE, name |-> ""]
Marker(type, negated, name) == [type |-> type, negated |-> negated, name |-> name]

\* Names every JavaScript object inherits: the enum object answers a lookup
\* of these with a function.
InheritedKeys == {"constructor", "toString", "valueOf", "hasOwnProperty"}

\* getCinnamonFeatureTypeById(id): CinnamonProjectFeatureType[id], a
\* TypeError when that is falsy.
getCinnamonFeatureTypeById(id) ==
    IF id \in CinnamonProjectFeatureType THEN [threw |-> FALSE, value |-> id]
    ELSE IF id \in InheritedKeys THEN [threw |-> FALSE, value |-> "function"]
    ELSE [threw |-> TRUE, value |-> ""]

\* contents.indexOf(unit, from): -1 when there is none.
indexOf(contents, unit, from) ==
    LET hits == {position \in from..(Len(contents) - 1) : contents[position + 1] = unit}
    IN  IF hits = {} THEN -1 ELSE Min(hits)

\* contents.substring(start, end): the arguments are clamped and swapped
\* when start > end.
substring(contents, start, end) ==
    LET clamp(i) == IF i < 0 THEN 0 ELSE IF i > Len(contents) THEN Len(contents) ELSE i
        from == Min({clamp(start), clamp(end)})
        to == Max({clamp(start), clamp(end)})
    IN  SubSeq(contents, from + 1, to)

swallowBefore(contents, position) ==
    IF position <= 0 THEN position
    ELSE IF contents[position] = EOL THEN position - 1
    ELSE position

swallowAfter(contents, position) ==
    IF Len(contents) <= position + 1 THEN position
    ELSE IF contents[position + 2] = EOL THEN position + 1
    ELSE position

\* The body of the loop over the matches for the match at `position`: the
\* deletions it pushes, or the exception it throws.
deletionsFor(h, topo, contents, position) ==
    LET match == contents[position + 1]
        feature == getCinnamonFeatureTypeById(match.name)
        startTag == indexOf(contents, EOL, position)
        endTag == indexOf(contents, Marker("END", match.negated, match.name), position)
        afterEndTag == indexOf(contents, EOL, endTag)
        enabled == get(h, topo, feature.value)
        remove == IF match.negated THEN enabled.value ELSE ~enabled.value
    IN  IF feature.threw THEN [threw |-> TRUE, deletions |-> << >>]
        ELSE IF match.type # "BEGIN" THEN [threw |-> FALSE, deletions |-> << >>]
        ELSE IF startTag = -1 \/ endTag = -1 THEN [threw |-> TRUE, deletions |-> << >>]
        ELSE IF afterEndTag = -1 \/ enabled.threw THEN [threw |-> TRUE, deletions |-> << >>]
        ELSE IF remove
        THEN [threw |-> FALSE,
              deletions |-> << <<swallowBefore(contents, position), afterEndTag>> >>]
        ELSE [threw |-> FALSE,
              deletions |-> << <<swallowBefore(contents, position),
                                 swallowAfter(contents, startTag)>>,
                               <<swallowBefore(contents, endTag), afterEndTag>> >>]

\* for (const match of matches) { ... }, from `position` on.
RECURSIVE collectDeletions(_, _, _, _, _)
collectDeletions(h, topo, contents, position, deletions) ==
    IF position >= Len(contents) THEN [threw |-> FALSE, deletions |-> deletions]
    ELSE IF contents[position + 1].type \notin {"BEGIN", "END"}
    THEN collectDeletions(h, topo, contents, position + 1, deletions)
    ELSE LET r == deletionsFor(h, topo, contents, position)
         IN  IF r.threw THEN r
             ELSE collectDeletions(h, topo, contents, position + 1, deletions \o r.deletions)

\* deletions.sort((a, b) => a[0] - b[0]): a stable sort by the start.
RECURSIVE sortByStart(_)
sortByStart(deletions) ==
    IF deletions = << >> THEN << >>
    ELSE LET least == Min({deletions[i][1] : i \in 1..Len(deletions)})
             first == Min({i \in 1..Len(deletions) : deletions[i][1] = least})
         IN  <<deletions[first]>>
                \o sortByStart(SubSeq(deletions, 1, first - 1)
                                 \o SubSeq(deletions, first + 1, Len(deletions)))

\* The loop merging deletions that overlap, at index i.
RECURSIVE mergeOverlapping(_, _)
mergeOverlapping(deletions, i) ==
    IF ~(i < Len(deletions) - 1) THEN deletions
    ELSE LET one == deletions[i + 1]
             two == deletions[i + 2]
         IN  IF two[1] <= one[2]
             THEN mergeOverlapping(
                    SubSeq(deletions, 1, i) \o << <<one[1], Max({one[2], two[2]})>> >>
                        \o SubSeq(deletions, i + 3, Len(deletions)),
                    i)
             ELSE mergeOverlapping(deletions, i + 1)

\* The loop building newContents, at the i-th deletion.
RECURSIVE buildContents(_, _, _, _)
buildContents(contents, deletions, i, lastEnd) ==
    IF i > Len(deletions) THEN substring(contents, lastEnd, Len(contents))
    ELSE substring(contents, lastEnd, deletions[i][1])
            \o buildContents(contents, deletions, i + 1, deletions[i][2])

\* newContents without a leading end of line and with a final one.  (The
\* placeholders {project-name}, {project-author}, {year}, {port} are
\* ordinary text here.)
trimmed(newContents) ==
    LET headless == IF newContents # << >> /\ newContents[1] = EOL
                    THEN Tail(newContents) ELSE newContents
    IN  IF headless # << >> /\ headless[Len(headless)] = EOL THEN headless
        ELSE Append(headless, EOL)


\* The include guard read as "skip the file when none of its features is
\* enabled".
RECURSIVE someNotEnabled_NoneEnabled(_, _, _, _)
someNotEnabled_NoneEnabled(h, topo, featureIds, i) ==
    IF i > Len(featureIds) THEN [threw |-> FALSE, value |-> TRUE]
    ELSE LET feature == getCinnamonFeatureTypeById(featureIds[i])
             enabled == get(h, topo, feature.value)
         IN  IF feature.threw \/ enabled.threw THEN [threw |-> TRUE, value |-> FALSE]
             ELSE IF enabled.value THEN [threw |-> FALSE, value |-> FALSE]
             ELSE someNotEnabled_NoneEnabled(h, topo, featureIds, i + 1)

\* featureIds.some(featureId => !this.features.get(getCinnamonFeatureTypeById(featureId))),
\* from the i-th identifier on: some stops at the first identifier that is
\* not enabled.
RECURSIVE someNotEnabled(_, _, _, _)
someNotEnabled(h, topo, featureIds, i) ==
    IF i > Len(featureIds) THEN [threw |-> FALSE, value |-> FALSE]
    ELSE LET feature == getCinnamonFeatureTypeById(featureIds[i])
             enabled == get(h, topo, feature.value)
         IN  IF feature.threw \/ enabled.threw THEN [threw |-> TRUE, value |-> FALSE]
             ELSE IF ~enabled.value THEN [threw |-> FALSE, value |-> TRUE]
             ELSE someNotEnabled(h, topo, featureIds, i + 1)

\* The body of configure's loop for one file.  guard is << >>, or
\* <<featureIds>> when the first line is //IF:featureIds; contents is the
\* text after that line.  The file ends up deleted (it is unlinked after
\* the loop), written with new contents, or untouched by an exception.
configure(h, topo, guard, contents) ==
    LET unneeded == IF guard = << >> THEN [threw |-> FALSE, value |-> FALSE]
                    ELSE someNotEnabled(h, topo, guard[1], 1)
        found == collectDeletions(h, topo, contents, 0, << >>)
        deletions == mergeOverlapping(sortByStart(found.deletions), 0)
    IN  IF unneeded.threw THEN [outcome |-> "threw", written |-> << >>]
        ELSE IF unneeded.value THEN [outcome |-> "deleted", written |-> << >>]
        ELSE IF found.threw THEN [outcome |-> "threw", written |-> << >>]
        ELSE [outcome |-> "written",
              written |-> trimmed(buildContents(contents, deletions, 1, 0))]

\* Most lines in a template file without an include guard, and most lines
\* after the guard in a file with one.
MaxLines == 4
MaxGuardedLines == 1

\* The lines of template files: empty, text, a marker of DATABASE in its
\* four forms, and the opening of a block of an identifier the catalog does
\* not have.
LineKinds ==
    { << >>, <<Char>>, <<Marker("BEGIN", FALSE, "UNKNOWN")>> }
        \cup { <<Marker(type, negated, "DATABASE")>> : type \in {"BEGIN", "END"},
                                                       negated \in BOOLEAN }

\* The first lines of template files: none of interest (<< >>), or an
\* include guard with its list of identifiers.
Guards ==
    { << >>, << <<"DATABASE">> >>, << <<"DATABASE", "AUTHENTICATION">> >>,
      << <<"AUTHENTICATION", "UNKNOWN">> >>, << <<"constructor">> >> }

\* lines.join('\n')
RECURSIVE join(_)
join(lines) ==
    IF lines = << >> THEN << >>
    ELSE IF Len(lines) = 1 THEN lines[1]
    ELSE lines[1] \o <<EOL>> \o join(Tail(lines))

\* The selections the prompt can leave among DATABASE and AUTHENTICATION.
Selections == { {}, {"DATABASE"}, {"DATABASE", "AUTHENTICATION"} }

\* A project whose features have been chosen is handed one template file.
InitConfigure ==
    \E selection \in Selections, guard \in Guards, n \in 0..MaxLines, final \in BOOLEAN :
      \E lines \in [1..n -> LineKinds] :
        /\ guard # << >> => n <= MaxGuardedLines
        /\ nodes = [i \in 1..Len(CinnamonNodes) |->
                      [CinnamonNodes[i] EXCEPT !.enabled = CinnamonNodes[i].metadata.id \in selection]]
        /\ topology = CinnamonTopology
        /\ _topology = <<CinnamonTopology>>
        /\ state = "ready"
        /\ threw = FALSE
        /\ prompt = PromptIdle
        /\ animator = AnimatorNew
        /\ run = NotRun
        /\ rewrite = [phase |-> "read", guard |-> guard, lines |-> lines,
                      contents |-> IF final THEN join(lines) \o <<EOL>> ELSE join(lines),
                      outcome |-> "", written |-> << >>]

\* await project.configure([file])
Configure ==
    /\ rewrite.phase = "read"
    /\ LET r == configure(nodes, _topology[1], rewrite.guard, rewrite.contents)
       IN  rewrite' = [rewrite EXCEPT !.phase = "configured", !.outcome = r.outcome,
                                      !.written = r.written]
    /\ UNCHANGED <<nodes, topology, _topology, state, threw, prompt, animator, run>>

SpecConfigure == InitConfigure /\ [][Configure]_vars


\* Whether a line is a line of text (possibly empty), not a marker.
IsPlain(line) == line = << >> \/ line = <<Char>>

\* The template files with one block and nothing else of interest: plain
\* lines, the BEGIN line at b, plain lines, the matching END line at e,
\* plain lines, each line ended by an end of line.
OneBlock(b, e) ==
    /\ rewrite.guard = << >>
    /\ rewrite.contents = join(rewrite.lines) \o <<EOL>>
    /\ b \in 1..Len(rewrite.lines) /\ e \in 1..Len(rewrite.lines) /\ b < e
    /\ rewrite.lines[b] # << >>
    /\ rewrite.lines[b][1].type = "BEGIN"
    /\ rewrite.lines[b][1].name \in CinnamonProjectFeatureType
    /\ rewrite.lines[e] = <<Marker("END", rewrite.lines[b][1].negated, rewrite.lines[b][1].name)>>
    /\ \A i \in 1..Len(rewrite.lines) \ {b, e} : IsPlain(rewrite.lines[i])

\* Whether the block opened at line b is to keep its body: the feature's
\* flag, inverted for a negated block.
Keeps(b) ==
    LET enabled == get(nodes, _topology[1], rewrite.lines[b][1].name).value
    IN  IF rewrite.lines[b][1].negated THEN ~enabled ELSE enabled

\* The file with lines b and e removed, or with lines b to e removed.
WithoutMarkers(b, e) ==
    SubSeq(rewrite.lines, 1, b - 1) \o SubSeq(rewrite.lines, b + 1, e - 1)
        \o SubSeq(rewrite.lines, e + 1, Len(rewrite.lines))
WithoutBlock(b, e) ==
    SubSeq(rewrite.lines, 1, b - 1) \o SubSeq(rewrite.lines, e + 1, Len(rewrite.lines))

\* The text of a file of the given lines, each ended by an end of line.  A
\* file that starts with an empty line is written without it, unless the
\* block opened the file: then the line end of its last marker is what is
\* dropped.
TextOf(lines, b) ==
    IF b = 1 THEN join(lines) \o <<EOL>> ELSE trimmed(join(lines) \o <<EOL>>)

\* C21: a block between //[BEGIN:F] and //[END:F] keeps its body, only the
\* two marker lines being removed, exactly when get(F) is true, and is
\* removed whole when get(F) is false; for //[BEGIN:!F] ... //[END:!F] the
\* decision is inverted.
C21_BlockKeptIffEnabled ==
    rewrite.phase = "configured" =>
        \A b, e \in 1..Len(rewrite.lines) :
            OneBlock(b, e) =>
                /\ rewrite.outcome = "written"
                /\ rewrite.written
                     = TextOf(IF Keeps(b) THEN WithoutMarkers(b, e) ELSE WithoutBlock(b, e), b)


\* The kept block as the code leaves it: an empty line directly after the
\* BEGIN line goes with the marker.
WithoutMarkersAndGap(b, e) ==
    LET from == IF b + 1 < e /\ rewrite.lines[b + 1] = << >> THEN b + 2 ELSE b + 1
    IN  SubSeq(rewrite.lines, 1, b - 1) \o SubSeq(rewrite.lines, from, e - 1)
            \o SubSeq(rewrite.lines, e + 1, Len(rewrite.lines))

\* What the code does with a block: it is removed whole exactly when it is
\* not to be kept; a kept block loses its two marker lines and, when its
\* body starts with an empty line, that line as well.
BlockKeptButForALeadingGap ==
    rewrite.phase = "configured" =>
        \A b, e \in 1..Len(rewrite.lines) :
            OneBlock(b, e) =>
                /\ rewrite.outcome = "written"
                /\ rewrite.written
                     = TextOf(IF Keeps(b) THEN WithoutMarkersAndGap(b, e)
                              ELSE WithoutBlock(b, e), b)


\* The identifiers of the include guard, if there is one.
GuardIds == IF rewrite.guard = << >> THEN << >> ELSE rewrite.guard[1]

\* A BEGIN marker with no matching END marker after it.
UnmatchedBegin ==
    \E p \in 1..Len(rewrite.contents) :
        /\ rewrite.contents[p].type = "BEGIN"
        /\ \A q \in (p + 1)..Len(rewrite.contents) :
              rewrite.contents[q]
                  # Marker("END", rewrite.contents[p].negated, rewrite.contents[p].name)

\* A marker or the include guard names an identifier the catalog lacks.
UnknownIdentifier ==
    \/ \E p \in 1..Len(rewrite.contents) :
          /\ rewrite.contents[p].type \in {"BEGIN", "END"}
          /\ rewrite.contents[p].name \notin CinnamonProjectFeatureType
    \/ \E i \in 1..Len(GuardIds) : GuardIds[i] \notin CinnamonProjectFeatureType

\* C22: configure fails with an error, and writes no rewritten file, when a
\* BEGIN marker has no matching END marker after it or when a marker or the
\* include guard names an identifier that is not in the catalog.
C22_MalformedTemplateThrows ==
    rewrite.phase = "configured" /\ (UnmatchedBegin \/ UnknownIdentifier) =>
        rewrite.outcome = "threw"

====
